---- MODULE Spec2Model ----
(***************************************************************************)
(* bs-date: conversion between Bikram Sambat (BS) and Anno Domini (AD)     *)
(* dates over the table of month lengths in config.js.                     *)
(*                                                                         *)
(* Time is counted in ticks of 1/DAY of a day, so that a Date carries      *)
(* a time of day and the half-day offset of Julian day numbers (x.5 at     *)
(* 00:00 UTC) is an integer.  A Date is its getTime() in ticks since       *)
(* 1970-01-01T00:00Z; a Julian day number j is held as j * DAY.            *)
(***************************************************************************)
EXTENDS Integers, Sequences, FiniteSets, TLC

(***************************************************************************)
(* config.js                                                               *)
(***************************************************************************)

\* Ticks per day: 2, so that midnight and noon are both representable.
DAY == 2

monthDaysInBSYear ==
    2000 :> <<30, 32, 31, 32, 31, 30, 30, 30, 29, 30, 29, 31>>
 @@ 2001 :> <<31, 31, 32, 31, 31, 31, 30, 29, 30, 29, 30, 30>>
 @@ 2002 :> <<31, 31, 32, 32, 31, 30, 30, 29, 30, 29, 30, 30>>
 @@ 2003 :> <<31, 32, 31, 32, 31, 30, 30, 30, 29, 29, 30, 31>>
 @@ 2004 :> <<30, 32, 31, 32, 31, 30, 30, 30, 29, 30, 29, 31>>
 @@ 2005 :> <<31, 31, 32, 31, 31, 31, 30, 29, 30, 29, 30, 30>>
 @@ 2006 :> <<31, 31, 32, 32, 31, 30, 30, 29, 30, 29, 30, 30>>
 @@ 2007 :> <<31, 32, 31, 32, 31, 30, 30, 30, 29, 29, 30, 31>>
 @@ 2008 :> <<31, 31, 31, 32, 31, 31, 29, 30, 30, 29, 29, 31>>
 @@ 2009 :> <<31, 31, 32, 31, 31, 31, 30, 29, 30, 29, 30, 30>>
 @@ 2010 :> <<31, 31, 32, 32, 31, 30, 30, 29, 30, 29, 30, 30>>
 @@ 2011 :> <<31, 32, 31, 32, 31, 30, 30, 30, 29, 29, 30, 31>>
 @@ 2012 :> <<31, 31, 31, 32, 31, 31, 29, 30, 30, 29, 30, 30>>
 @@ 2013 :> <<31, 31, 32, 31, 31, 31, 30, 29, 30, 29, 30, 30>>
 @@ 2014 :> <<31, 31, 32, 32, 31, 30, 30, 29, 30, 29, 30, 30>>
 @@ 2015 :> <<31, 32, 31, 32, 31, 30, 30, 30, 29, 29, 30, 31>>
 @@ 2016 :> <<31, 31, 31, 32, 31, 31, 29, 30, 30, 29, 30, 30>>
 @@ 2017 :> <<31, 31, 32, 31, 31, 31, 30, 29, 30, 29, 30, 30>>
 @@ 2018 :> <<31, 32, 31, 32, 31, 30, 30, 29, 30, 29, 30, 30>>
 @@ 2019 :> <<31, 32, 31, 32, 31, 30, 30, 30, 29, 30, 29, 31>>
 @@ 2020 :> <<31, 31, 31, 32, 31, 31, 30, 29, 30, 29, 30, 30>>
 @@ 2021 :> <<31, 31, 32, 31, 31, 31, 30, 29, 30, 29, 30, 30>>
 @@ 2022 :> <<31, 32, 31, 32, 31, 30, 30, 30, 29, 29, 30, 30>>
 @@ 2023 :> <<31, 32, 31, 32, 31, 30, 30, 30, 29, 30, 29, 31>>
 @@ 2024 :> <<31, 31, 31, 32, 31, 31, 30, 29, 30, 29, 30, 30>>
 @@ 2025 :> <<31, 31, 32, 31, 31, 31, 30, 29, 30, 29, 30, 30>>
 @@ 2026 :> <<31, 32, 31, 32, 31, 30, 30, 30, 29, 29, 30, 31>>
 @@ 2027 :> <<30, 32, 31, 32, 31, 30, 30, 30, 29, 30, 29, 31>>
 @@ 2028 :> <<31, 31, 32, 31, 31, 31, 30, 29, 30, 29, 30, 30>>
 @@ 2029 :> <<31, 31, 32, 31, 32, 30, 30, 29, 30, 29, 30, 30>>
 @@ 2030 :> <<31, 32, 31, 32, 31, 30, 30, 30, 29, 29, 30, 31>>
 @@ 2031 :> <<30, 32, 31, 32, 31, 30, 30, 30, 29, 30, 29, 31>>
 @@ 2032 :> <<31, 31, 32, 31, 31, 31, 30, 29, 30, 29, 30, 30>>
 @@ 2033 :> <<31, 31, 32, 32, 31, 30, 30, 29, 30, 29, 30, 30>>
 @@ 2034 :> <<31, 32, 31, 32, 31, 30, 30, 30, 29, 29, 30, 31>>
 @@ 2035 :> <<30, 32, 31, 32, 31, 31, 29, 30, 30, 29, 29, 31>>
 @@ 2036 :> <<31, 31, 32, 31, 31, 31, 30, 29, 30, 29, 30, 30>>
 @@ 2037 :> <<31, 31, 32, 32, 31, 30, 30, 29, 30, 29, 30, 30>>
 @@ 2038 :> <<31, 32, 31, 32, 31, 30, 30, 30, 29, 29, 30, 31>>
 @@ 2039 :> <<31, 31, 31, 32, 31, 31, 29, 30, 30, 29, 30, 30>>
 @@ 2040 :> <<31, 31, 32, 31, 31, 31, 30, 29, 30, 29, 30, 30>>
 @@ 2041 :> <<31, 31, 32, 32, 31, 30, 30, 29, 30, 29, 30, 30>>
 @@ 2042 :> <<31, 32, 31, 32, 31, 30, 30, 30, 29, 29, 30, 31>>
 @@ 2043 :> <<31, 31, 31, 32, 31, 31, 29, 30, 30, 29, 30, 30>>
 @@ 2044 :> <<31, 31, 32, 31, 31, 31, 30, 29, 30, 29, 30, 30>>
 @@ 2045 :> <<31, 32, 31, 32, 31, 30, 30, 29, 30, 29, 30, 30>>
 @@ 2046 :> <<31, 32, 31, 32, 31, 30, 30, 30, 29, 29, 30, 31>>
 @@ 2047 :> <<31, 31, 31, 32, 31, 31, 30, 29, 30, 29, 30, 30>>
 @@ 2048 :> <<31, 31, 32, 31, 31, 31, 30, 29, 30, 29, 30, 30>>
 @@ 2049 :> <<31, 32, 31, 32, 31, 30, 30, 30, 29, 29, 30, 30>>
 @@ 2050 :> <<31, 32, 31, 32, 31, 30, 30, 30, 29, 30, 29, 31>>
 @@ 2051 :> <<31, 31, 31, 32, 31, 31, 30, 29, 30, 29, 30, 30>>
 @@ 2052 :> <<31, 31, 32, 31, 31, 31, 30, 29, 30, 29, 30, 30>>
 @@ 2053 :> <<31, 32, 31, 32, 31, 30, 30, 30, 29, 29, 30, 30>>
 @@ 2054 :> <<31, 32, 31, 32, 31, 30, 30, 30, 29, 30, 29, 31>>
 @@ 2055 :> <<31, 31, 32, 31, 31, 31, 30, 29, 30, 29, 30, 30>>
 @@ 2056 :> <<31, 31, 32, 31, 32, 30, 30, 29, 30, 29, 30, 30>>
 @@ 2057 :> <<31, 32, 31, 32, 31, 30, 30, 30, 29, 29, 30, 31>>
 @@ 2058 :> <<30, 32, 31, 32, 31, 30, 30, 30, 29, 30, 29, 31>>
 @@ 2059 :> <<31, 31, 32, 31, 31, 31, 30, 29, 30, 29, 30, 30>>
 @@ 2060 :> <<31, 31, 32, 32, 31, 30, 30, 29, 30, 29, 30, 30>>
 @@ 2061 :> <<31, 32, 31, 32, 31, 30, 30, 30, 29, 29, 30, 31>>
 @@ 2062 :> <<30, 32, 31, 32, 31, 31, 29, 30, 29, 30, 29, 31>>
 @@ 2063 :> <<31, 31, 32, 31, 31, 31, 30, 29, 30, 29, 30, 30>>
 @@ 2064 :> <<31, 31, 32, 32, 31, 30, 30, 29, 30, 29, 30, 30>>
 @@ 2065 :> <<31, 32, 31, 32, 31, 30, 30, 30, 29, 29, 30, 31>>
 @@ 2066 :> <<31, 31, 31, 32, 31, 31, 29, 30, 30, 29, 29, 31>>
 @@ 2067 :> <<31, 31, 32, 31, 31, 31, 30, 29, 30, 29, 30, 30>>
 @@ 2068 :> <<31, 31, 32, 32, 31, 30, 30, 29, 30, 29, 30, 30>>
 @@ 2069 :> <<31, 32, 31, 32, 31, 30, 30, 30, 29, 29, 30, 31>>
 @@ 2070 :> <<31, 31, 31, 32, 31, 31, 29, 30, 30, 29, 30, 30>>
 @@ 2071 :> <<31, 31, 32, 31, 31, 31, 30, 29, 30, 29, 30, 30>>
 @@ 2072 :> <<31, 32, 31, 32, 31, 30, 30, 29, 30, 29, 30, 30>>
 @@ 2073 :> <<31, 32, 31, 32, 31, 30, 30, 30, 29, 29, 30, 31>>
 @@ 2074 :> <<31, 31, 31, 32, 31, 31, 30, 29, 30, 29, 30, 30>>
 @@ 2075 :> <<31, 31, 32, 31, 31, 31, 30, 29, 30, 29, 30, 30>>
 @@ 2076 :> <<31, 32, 31, 32, 31, 30, 30, 30, 29, 29, 30, 30>>
 @@ 2077 :> <<31, 32, 31, 32, 31, 30, 30, 30, 29, 30, 29, 31>>
 @@ 2078 :> <<31, 31, 31, 32, 31, 31, 30, 29, 30, 29, 30, 30>>
 @@ 2079 :> <<31, 31, 32, 31, 31, 31, 30, 29, 30, 29, 30, 30>>
 @@ 2080 :> <<31, 32, 31, 32, 31, 30, 30, 30, 29, 29, 30, 30>>
 @@ 2081 :> <<31, 31, 32, 32, 31, 30, 30, 30, 29, 30, 30, 30>>
 @@ 2082 :> <<30, 32, 31, 32, 31, 30, 30, 30, 29, 30, 30, 30>>
 @@ 2083 :> <<31, 31, 32, 31, 31, 30, 30, 30, 29, 30, 30, 30>>
 @@ 2084 :> <<31, 31, 32, 31, 31, 30, 30, 30, 29, 30, 30, 30>>
 @@ 2085 :> <<31, 32, 31, 32, 30, 31, 30, 30, 29, 30, 30, 30>>
 @@ 2086 :> <<30, 32, 31, 32, 31, 30, 30, 30, 29, 30, 30, 30>>
 @@ 2087 :> <<31, 31, 32, 31, 31, 31, 30, 30, 29, 30, 30, 30>>
 @@ 2088 :> <<30, 31, 32, 32, 30, 31, 30, 30, 29, 30, 30, 30>>
 @@ 2089 :> <<30, 32, 31, 32, 31, 30, 30, 30, 29, 30, 30, 30>>
 @@ 2090 :> <<30, 32, 31, 32, 31, 30, 30, 30, 29, 30, 30, 30>>

epochBS == <<2000, 1, 1>>

\* 2430828.5 days
epochJulianDays == 4861657

\* arr[i] of a JavaScript array (zero-based) is undefined outside 0..length-1;
\* every comparison with undefined is false.
Defined(arr, i) == i >= 0 /\ i < Len(arr)

At(arr, i) == arr[i + 1]

\* arr.reduce((acc, curr) => acc + curr, 0)
RECURSIVE reduce(_)
reduce(arr) == IF arr = <<>> THEN 0 ELSE arr[1] + reduce(Tail(arr))

\* slice as arr.slice(1, n): the first element is skipped
slice_fromOne(arr, n) == SubSeq(arr, 2, IF n > Len(arr) THEN Len(arr) ELSE n)

\* arr.slice(0, n)
slice(arr, n) == SubSeq(arr, 1, IF n < 0 THEN 0 ELSE IF n > Len(arr) THEN Len(arr) ELSE n)

\* Object.hasOwn(monthDaysInBSYear, year)
hasOwn(year) == year \in DOMAIN monthDaysInBSYear

\* monthDaysInBSYear[year].reduce(...), for every key of the table
yearDays == [y \in DOMAIN monthDaysInBSYear |-> reduce(monthDaysInBSYear[y])]

(***************************************************************************)
(* Date and the julian package                                             *)
(***************************************************************************)

\* Days from 1970-01-01 to the Gregorian calendar date (y, m, d).
DaysFromCivil(y, m, d) ==
    LET yy  == IF m <= 2 THEN y - 1 ELSE y
        era == yy \div 400
        yoe == yy - era * 400
        mp  == IF m > 2 THEN m - 3 ELSE m + 9
        doy == (153 * mp + 2) \div 5 + d - 1
        doe == yoe * 365 + yoe \div 4 - yoe \div 100 + doy
    IN  era * 146097 + doe - 719468

\* new Date("yyyy-mm-dd").getTime(): 00:00 UTC of that day
DateUTC(y, m, d) == DaysFromCivil(y, m, d) * DAY

\* 2440587.5 days: the Julian day number of 1970-01-01T00:00Z
UNIX_EPOCH_JULIAN_DATE == 4881175

\* julian(date)
julian(t) == t + UNIX_EPOCH_JULIAN_DATE

\* julian.toDate(j)
julianToDate(j) == j - UNIX_EPOCH_JULIAN_DATE

epochADStart == DateUTC(1943, 4, 14)

epochADEnd == DateUTC(2034, 4, 13)

\* The offsets of local time from UTC that the process may run under, in
\* ticks: UTC-12:00, UTC, UTC+12:00.
TimeZoneOffsets == {-1, 0, 1}

\* date.getDay() under local time = UTC + tz: the day of the week of the
\* local calendar day, 0 = Sunday .. 6 = Saturday (1970-01-01 was a Thursday)
getDay(t, tz) == (((t + tz) \div DAY) + 4) % 7

\* Object.keys(weekdays): the Devanagari names, written here by the names of
\* their letters
weekdaysKeys ==
    <<"AA-I-TA-BA-AA-RA", "SA-O-MA-BA-AA-RA", "MA-NGA-GA-LA-VA-AA-RA",
      "BA-U-DHA-BA-AA-RA", "BA-I-HA-II-BA-AA-RA", "SHA-U-KA-RA-BA-AA-RA",
      "SHA-NA-I-VA-AA-RA">>

\* Object.values(weekdays)
weekdaysValues ==
    <<"Aaitabar", "Sombar", "Mangalbar", "Budhbar", "Bihibar", "Shukrabar",
      "Shanibar">>

weekdaysLocal ==
    <<"Sunday", "Monday", "Tuesday", "Wednesday", "Thursday", "Friday",
      "Saturday">>

(***************************************************************************)
(* bs-date.js: class BSDate                                                *)
(***************************************************************************)

BS(y, m, d) == [year |-> y, month |-> m, day |-> d]

\* Falsy as a test for a missing argument only: zero passes
Falsy_missingOnly(args, i) == Len(args) < i

\* !x of the i-th actual argument: missing (undefined) or zero
Falsy(args, i) == Len(args) < i \/ args[i] = 0

\* constructor(year, month, day): the error thrown, or "none"
constructorThrows(args) ==
    IF Falsy(args, 1) \/ Falsy(args, 2) \/ Falsy(args, 3) THEN "Error" ELSE "none"

\* #validDate() with the day checked against 32, not against the table
validDate_dayUpTo32(b) ==
    /\ hasOwn(b.year)
    /\ b.month > 0
    /\ b.month <= 12
    /\ b.day > 0
    /\ b.day <= 32

\* #validDate()
validDate(b) ==
    /\ hasOwn(b.year)
    /\ b.month > 0
    /\ b.month <= 12
    /\ b.day > 0
    /\ Defined(monthDaysInBSYear[b.year], b.month - 1)
    /\ b.day <= At(monthDaysInBSYear[b.year], b.month - 1)

\* #validateBSDate(): the error thrown, or "none"
validateBSDate(b) == IF ~validDate(b) THEN "BSDateOutOfRangeError" ELSE "none"

\* the for loop with year <= this.year: the target year is added whole
RECURSIVE addYears_inclusive(_, _, _)
addYears_inclusive(b, year, julianDays) ==
    IF year <= b.year
    THEN addYears_inclusive(b, year + 1, julianDays + yearDays[year] * DAY)
    ELSE julianDays

\* the for loop of #bsToJulianDays(): whole years from `year` up to b.year
RECURSIVE addYears(_, _, _)
addYears(b, year, julianDays) ==
    IF year < b.year
    THEN addYears(b, year + 1, julianDays + yearDays[year] * DAY)
    ELSE julianDays

\* the iterations of the for loop of #bsToJulianDays()
RECURSIVE addYearsIterations(_, _)
addYearsIterations(b, year) ==
    IF year < b.year THEN 1 + addYearsIterations(b, year + 1) ELSE 0

\* #bsToJulianDays() adding this.day, not this.day - 1
bsToJulianDays_dayNotZeroBased(b) ==
    LET afterYears  == addYears(b, epochBS[1], epochJulianDays)
        afterMonths == afterYears
                       + reduce(slice(monthDaysInBSYear[b.year], b.month - 1)) * DAY
    IN  afterMonths + b.day * DAY

\* #bsToJulianDays()
bsToJulianDays(b) ==
    LET afterYears  == addYears(b, epochBS[1], epochJulianDays)
        afterMonths == afterYears
                       + reduce(slice(monthDaysInBSYear[b.year], b.month - 1)) * DAY
    IN  afterMonths + (b.day - 1) * DAY

\* Math.ceil(r / DAY)
ceil(r) == -((-r) \div DAY)

\* the month loop of #julianDaysToBS() and the day
\* (the result also counts the iterations of the two loops)
RECURSIVE monthScan(_, _, _)
monthScan(year, month, remainingDays) ==
    IF /\ Defined(monthDaysInBSYear[year], month - 1)
       /\ remainingDays > At(monthDaysInBSYear[year], month - 1) * DAY
    THEN LET r == monthScan(year, month + 1,
                            remainingDays - At(monthDaysInBSYear[year], month - 1) * DAY)
         IN  [r EXCEPT !.monthIters = @ + 1]
    ELSE [thrown |-> "none", year |-> year, month |-> month,
          day |-> ceil(remainingDays + DAY), yearIters |-> 0, monthIters |-> 0]

\* the year loop of #julianDaysToBS(); reading .reduce of a year that is not
\* in the table is a TypeError
\* the year loop comparing with a fixed 366 days, not with the year's length
RECURSIVE yearScan_fixedYearLength(_, _)
yearScan_fixedYearLength(year, remainingDays) ==
    IF ~hasOwn(year)
    THEN [thrown |-> "TypeError", year |-> year, month |-> 0, day |-> 0,
          yearIters |-> 0, monthIters |-> 0]
    ELSE IF remainingDays > 366 * DAY
         THEN LET r == yearScan_fixedYearLength(year + 1,
                                                remainingDays - yearDays[year] * DAY)
              IN  [r EXCEPT !.yearIters = @ + 1]
         ELSE monthScan(year, 1, remainingDays)

RECURSIVE yearScan(_, _)
yearScan(year, remainingDays) ==
    IF ~hasOwn(year)
    THEN [thrown |-> "TypeError", year |-> year, month |-> 0, day |-> 0,
          yearIters |-> 0, monthIters |-> 0]
    ELSE IF remainingDays > yearDays[year] * DAY
         THEN LET r == yearScan(year + 1, remainingDays - yearDays[year] * DAY)
              IN  [r EXCEPT !.yearIters = @ + 1]
         ELSE monthScan(year, 1, remainingDays)

\* static #julianDaysToBS(julianDays)
julianDaysToBS(julianDays) == yearScan(epochBS[1], julianDays - epochJulianDays)

\* fromAD calling new BSDate(year, day, month)
fromAD_dayMonthSwapped(t) ==
    LET r == julianDaysToBS(julian(t))
    IN  IF r.thrown # "none" THEN r
        ELSE [r EXCEPT !.thrown = constructorThrows(<<r.year, r.day, r.month>>),
                       !.month = r.day, !.day = r.month]

\* static fromAD(adDate): the conversion, then new BSDate(year, month, day)
fromAD(t) ==
    LET r == julianDaysToBS(julian(t))
    IN  IF r.thrown # "none" THEN r
        ELSE [r EXCEPT !.thrown = constructorThrows(<<r.year, r.month, r.day>>)]

\* dayName with the date validated before the options are looked at
dayName_validateFirst(b, romanized, localized, tz) ==
    IF validateBSDate(b) # "none"
    THEN [thrown |-> validateBSDate(b), name |-> ""]
    ELSE IF romanized /\ localized
         THEN [thrown |-> "Error", name |-> ""]
         ELSE LET w == getDay(julianToDate(bsToJulianDays(b)), tz)
              IN  [thrown |-> "none",
                   name |-> IF localized THEN At(weekdaysLocal, w)
                            ELSE IF romanized THEN At(weekdaysValues, w)
                            ELSE At(weekdaysKeys, w)]

\* dayName({ romanized, localized }) under local time = UTC + tz: the error
\* thrown or "none", and the name returned
dayName(b, romanized, localized, tz) ==
    IF romanized /\ localized
    THEN [thrown |-> "Error", name |-> ""]
    ELSE IF validateBSDate(b) # "none"
         THEN [thrown |-> validateBSDate(b), name |-> ""]
         ELSE LET w == getDay(julianToDate(bsToJulianDays(b)), tz)
              IN  [thrown |-> "none",
                   name |-> IF localized THEN At(weekdaysLocal, w)
                            ELSE IF romanized THEN At(weekdaysValues, w)
                            ELSE At(weekdaysKeys, w)]

(***************************************************************************)
(* date-utils.js: Date.prototype.toBS                                      *)
(***************************************************************************)

\* the range guard with >=: epochADEnd itself is rejected
outOfRange_endExcluded(t) == t < epochADStart \/ t >= epochADEnd

\* the range guard of toBS
outOfRange(t) == t < epochADStart \/ t > epochADEnd

(***************************************************************************)
(* Inputs                                                                  *)
(***************************************************************************)

\* years tried beyond each end of the table
YearMargin == 1

\* months tried beyond 12 and days tried beyond 32
FieldMargin == 1

\* days tried before epochADStart and after epochADEnd
ADMargin == 2

\* conversions applied in a row to one constructed object
MaxChain == 3

YearInputs == {-1, 0} \cup ((epochBS[1] - YearMargin) .. (2090 + YearMargin))

MonthInputs == -1 .. (12 + FieldMargin)

DayInputs == -1 .. (32 + FieldMargin)

\* the argument lists of new BSDate(...): trailing arguments may be missing
ArgsInputs ==
    {<<>>}
    \cup {<<y>> : y \in YearInputs}
    \cup {<<y, m>> : y \in YearInputs, m \in MonthInputs}
    \cup {<<y, m, d>> : y \in YearInputs, m \in MonthInputs, d \in DayInputs}

\* the instants tried for a Date: 00:00 UTC of every day from ADMargin days
\* before epochADStart to ADMargin days after epochADEnd, every other time
\* of day within ADMargin days of either end, and the two dates of the tests
DateInputs ==
    {d * DAY : d \in (epochADStart \div DAY - ADMargin) .. (epochADEnd \div DAY + ADMargin)}
    \cup ((epochADStart - ADMargin * DAY) .. (epochADStart + (ADMargin + 1) * DAY - 1))
    \cup ((epochADEnd - ADMargin * DAY) .. (epochADEnd + (ADMargin + 1) * DAY - 1))
    \cup {DateUTC(1942, 6, 25), DateUTC(2035, 6, 25)}

\* every instant from ADMargin days before epochADStart to ADMargin days
\* after epochADEnd, and the two dates of the tests
TimeInputs ==
    ((epochADStart - ADMargin * DAY) .. (epochADEnd + (ADMargin + 1) * DAY - 1))
    \cup {DateUTC(1942, 6, 25), DateUTC(2035, 6, 25)}

(***************************************************************************)
(* State                                                                   *)
(***************************************************************************)

VARIABLES
    input,   \* the arguments of the constructor call that began the chain
    trail,   \* the calls made since, the constructor first
    bsDate,  \* <<b>>: the BSDate constructed or returned last; <<>>: none
    adDate,  \* <<t>>: the Date constructed or returned last; <<>>: none
    error,   \* the error the last call threw, or "none"
    call,    \* <<c>>: the options and the time zone of the last dayName; else <<>>
    name,    \* <<s>>: the name the last dayName returned; <<>>: none
    loops    \* <<<<y, m>>>>: the iterations of the year loop and of the month
             \* loop in the last conversion; <<>>: no loop was entered

vars == <<input, trail, bsDate, adDate, error, call, name, loops>>

None == <<>>

Some(x) == <<x>>

Init ==
    /\ input = <<>>
    /\ trail = <<>>
    /\ bsDate = None
    /\ adDate = None
    /\ error = "none"
    /\ call = None
    /\ name = None
    /\ loops = None

\* new BSDate(...args), the first call of a chain
NewBSDate(args) ==
    /\ trail = <<>>
    /\ input' = args
    /\ trail' = <<"BSDate">>
    /\ error' = constructorThrows(args)
    /\ bsDate' = IF constructorThrows(args) = "none"
                 THEN Some(BS(args[1], args[2], args[3]))
                 ELSE None
    /\ adDate' = None
    /\ call' = None
    /\ name' = None
    /\ loops' = None

\* new Date(t), the first call of a chain
NewDate(t) ==
    /\ trail = <<>>
    /\ input' = <<t>>
    /\ trail' = <<"Date">>
    /\ error' = "none"
    /\ adDate' = Some(t)
    /\ bsDate' = None
    /\ call' = None
    /\ name' = None
    /\ loops' = None

\* bsDate.toAD()
ToAD ==
    /\ bsDate # None
    /\ Len(trail) < MaxChain
    /\ trail' = Append(trail, "toAD")
    /\ error' = validateBSDate(bsDate[1])
    /\ adDate' = IF validateBSDate(bsDate[1]) = "none"
                 THEN Some(julianToDate(bsToJulianDays(bsDate[1])))
                 ELSE None
    /\ loops' = IF validateBSDate(bsDate[1]) = "none"
                THEN Some(<<addYearsIterations(bsDate[1], epochBS[1]), 0>>)
                ELSE None
    /\ call' = None
    /\ name' = None
    /\ UNCHANGED <<input, bsDate>>

\* BSDate.fromAD(adDate)
FromAD ==
    /\ adDate # None
    /\ Len(trail) < MaxChain
    /\ trail' = Append(trail, "fromAD")
    /\ LET r == fromAD(adDate[1])
       IN  /\ error' = r.thrown
           /\ bsDate' = IF r.thrown = "none"
                        THEN Some(BS(r.year, r.month, r.day))
                        ELSE None
           /\ loops' = Some(<<r.yearIters, r.monthIters>>)
    /\ call' = None
    /\ name' = None
    /\ UNCHANGED <<input, adDate>>

\* adDate.toBS()
ToBS ==
    /\ adDate # None
    /\ Len(trail) < MaxChain
    /\ trail' = Append(trail, "toBS")
    /\ IF outOfRange(adDate[1])
       THEN /\ error' = "DateOutOfRangeError"
            /\ bsDate' = None
            /\ loops' = None
       ELSE LET r == fromAD(adDate[1])
            IN  /\ error' = r.thrown
                /\ bsDate' = IF r.thrown = "none"
                             THEN Some(BS(r.year, r.month, r.day))
                             ELSE None
                /\ loops' = Some(<<r.yearIters, r.monthIters>>)
    /\ call' = None
    /\ name' = None
    /\ UNCHANGED <<input, adDate>>

\* bsDate.dayName({ romanized, localized }) in a process whose local time is
\* UTC + tz
DayName(romanized, localized, tz) ==
    /\ bsDate # None
    /\ Len(trail) < MaxChain
    /\ trail' = Append(trail, "dayName")
    /\ call' = Some([romanized |-> romanized, localized |-> localized, tz |-> tz])
    /\ LET r == dayName(bsDate[1], romanized, localized, tz)
       IN  /\ error' = r.thrown
           /\ name' = IF r.thrown = "none" THEN Some(r.name) ELSE None
    /\ loops' = None
    /\ UNCHANGED <<input, bsDate, adDate>>

\* chains that begin with new BSDate(...)
NextBS ==
    \/ trail = <<>> /\ \E args \in ArgsInputs : NewBSDate(args)
    \/ ToAD
    \/ FromAD

SpecBS == Init /\ [][NextBS]_vars

\* chains that begin with new Date(t)
NextAD ==
    \/ trail = <<>> /\ \E t \in DateInputs : NewDate(t)
    \/ ToBS
    \/ ToAD

SpecAD == Init /\ [][NextAD]_vars

\* one dayName on a constructed BSDate
NextName ==
    \/ trail = <<>> /\ \E args \in ArgsInputs : NewBSDate(args)
    \/ /\ Len(trail) = 1
       /\ \E romanized \in BOOLEAN, localized \in BOOLEAN, tz \in TimeZoneOffsets :
              DayName(romanized, localized, tz)

SpecName == Init /\ [][NextName]_vars

\* one conversion of a constructed object: toAD() of a BSDate, or
\* BSDate.fromAD of a Date at any time of day
NextOne ==
    \/ trail = <<>> /\ \E args \in ArgsInputs : NewBSDate(args)
    \/ trail = <<>> /\ \E t \in TimeInputs : NewDate(t)
    \/ Len(trail) = 1 /\ ToAD
    \/ Len(trail) = 1 /\ FromAD

SpecOne == Init /\ [][NextOne]_vars

\* toBS() of a Date
NextToBS ==
    \/ trail = <<>> /\ \E t \in DateInputs : NewDate(t)
    \/ Len(trail) = 1 /\ ToBS

SpecToBS == Init /\ [][NextToBS]_vars

Next ==
    \/ trail = <<>> /\ \E args \in ArgsInputs : NewBSDate(args)
    \/ trail = <<>> /\ \E t \in DateInputs : NewDate(t)
    \/ ToAD
    \/ FromAD
    \/ ToBS
    \/ \E romanized \in BOOLEAN, localized \in BOOLEAN, tz \in TimeZoneOffsets :
           DayName(romanized, localized, tz)

Spec == Init /\ [][Next]_vars

(***************************************************************************)
(* Properties                                                              *)
(***************************************************************************)

\* (y, m, d) is a date of the table: y in 2000..2090, m in 1..12 and d in
\* 1..(length of month m of year y)
IsTableDate(y, m, d) ==
    /\ y \in 2000 .. 2090
    /\ m \in 1 .. 12
    /\ d >= 1
    /\ d <= monthDaysInBSYear[y][m]

\* the input of the chain is a complete argument list naming a table date
InputIsTableDate == Len(input) = 3 /\ IsTableDate(input[1], input[2], input[3])

\* the number of days of the table before (y, m, d)
DaysBefore(y, m, d) ==
    LET Years == 2000 .. (y - 1)
        Months == 1 .. (m - 1)
        RECURSIVE SumYears(_)
        SumYears(S) == IF S = {} THEN 0
                       ELSE LET x == CHOOSE x \in S : TRUE
                            IN  monthDaysInBSYear[x][1] + monthDaysInBSYear[x][2]
                                + monthDaysInBSYear[x][3] + monthDaysInBSYear[x][4]
                                + monthDaysInBSYear[x][5] + monthDaysInBSYear[x][6]
                                + monthDaysInBSYear[x][7] + monthDaysInBSYear[x][8]
                                + monthDaysInBSYear[x][9] + monthDaysInBSYear[x][10]
                                + monthDaysInBSYear[x][11] + monthDaysInBSYear[x][12]
                                + SumYears(S \ {x})
        RECURSIVE SumMonths(_)
        SumMonths(S) == IF S = {} THEN 0
                        ELSE LET x == CHOOSE x \in S : TRUE
                             IN  monthDaysInBSYear[y][x] + SumMonths(S \ {x})
    IN  SumYears(Years) + SumMonths(Months) + (d - 1)

\* C1: for every table date (y, m, d), converting BSDate(y, m, d) to its
\* Julian day and back gives BSDate(y, m, d) again.
C1_RoundTripBS ==
    (trail = <<"BSDate", "toAD", "fromAD">> /\ InputIsTableDate)
        => (error = "none" /\ bsDate = Some(BS(input[1], input[2], input[3])))

\* C2: for every AD date D at 00:00 UTC from 1943-04-14 to 2034-04-13,
\* D.toBS() succeeds and D.toBS().toAD() succeeds and equals D; 1999-06-25
\* converts to BSDate(2056, 3, 11).
C2_RoundTripAD ==
    /\ (/\ trail = <<"Date", "toBS", "toAD">>
        /\ input[1] % DAY = 0
        /\ input[1] >= DateUTC(1943, 4, 14)
        /\ input[1] <= DateUTC(2034, 4, 13))
           => (error = "none" /\ adDate = Some(input[1]))
    /\ (trail = <<"Date", "toBS">> /\ input[1] = DateUTC(1999, 6, 25))
           => (error = "none" /\ bsDate = Some(BS(2056, 3, 11)))

\* C3: toAD() of a constructed BSDate(y, m, d) fails with BSDateOutOfRangeError
\* exactly when (y, m, d) is not a table date; otherwise it returns a date
\* and raises nothing.
C3_ToADValidationExact ==
    trail = <<"BSDate", "toAD">>
        => /\ error \in {"none", "BSDateOutOfRangeError"}
           /\ error = "BSDateOutOfRangeError"
                  <=> ~IsTableDate(input[1], input[2], input[3])
           /\ IsTableDate(input[1], input[2], input[3]) => adDate # None
           /\ error # "none" => adDate = None

\* C3 witness: toAD() of BSDate(2000, 1, 33) has failed
C3_Witness ==
    /\ trail = <<"BSDate", "toAD">>
    /\ input = <<2000, 1, 33>>
    /\ error = "BSDateOutOfRangeError"

\* C4: toBS() fails with DateOutOfRangeError exactly when the instant is
\* earlier than 1943-04-14 or later than 2034-04-13 (00:00 UTC); both end
\* dates are accepted, and a date out of range is never converted: no other
\* error is raised for it and no BSDate is returned.
C4_ADRangeGuard ==
    trail = <<"Date", "toBS">>
        => /\ error = "DateOutOfRangeError"
                  <=> (input[1] < DateUTC(1943, 4, 14) \/ input[1] > DateUTC(2034, 4, 13))
           /\ input[1] \in {DateUTC(1943, 4, 14), DateUTC(2034, 4, 13)}
                  => (error = "none" /\ bsDate # None)
           /\ input[1] \in {DateUTC(1942, 6, 25), DateUTC(2035, 6, 25)}
                  => error = "DateOutOfRangeError"
           /\ error = "DateOutOfRangeError" => bsDate = None

\* C4 witness: toBS() of 2035-06-25 has failed with DateOutOfRangeError
C4_Witness ==
    /\ trail = <<"Date", "toBS">>
    /\ input = <<DateUTC(2035, 6, 25)>>
    /\ error = "DateOutOfRangeError"
    /\ bsDate = None

\* C5: for every table date, toAD() is the date exactly N days after
\* 1943-04-14, N being the days of the table before it; BSDate(2000, 1, 1)
\* gives 1943-04-14 and BSDate(2082, 5, 25) gives 2025-09-10 (N = 30100).
C5_ToADOffset ==
    (trail = <<"BSDate", "toAD">> /\ InputIsTableDate)
        => /\ adDate = Some(DateUTC(1943, 4, 14)
                            + DaysBefore(input[1], input[2], input[3]) * DAY)
           /\ input = <<2000, 1, 1>> => adDate = Some(DateUTC(1943, 4, 14))
           /\ input = <<2082, 5, 25>>
                  => /\ adDate = Some(DateUTC(2025, 9, 10))
                     /\ DaysBefore(2082, 5, 25) = 30100

\* C5 witness: toAD() of BSDate(2082, 5, 25) has returned 2025-09-10
C5_Witness ==
    /\ trail = <<"BSDate", "toAD">>
    /\ input = <<2082, 5, 25>>
    /\ adDate = Some(DateUTC(2025, 9, 10))

\* every date of the table, as <<y, m, d>>
TableDates ==
    UNION {{<<y, m, d>> : d \in 1 .. monthDaysInBSYear[y][m]} :
               y \in 2000 .. 2090, m \in 1 .. 12}

\* 00:00 UTC of every day from 1943-04-14 to 2034-04-13
ADDays == {n * DAY : n \in DaysFromCivil(1943, 4, 14) .. DaysFromCivil(2034, 4, 13)}

\* the Julian day #bsToJulianDays() computes for every date of the table
TableJulianDays ==
    [y \in 2000 .. 2090 |->
        [m \in 1 .. 12 |->
            [d \in 1 .. monthDaysInBSYear[y][m] |-> bsToJulianDays(BS(y, m, d))]]]

\* what toAD() returns for every date of the table
ADImage == {julianToDate(TableJulianDays[t[1]][t[2]][t[3]]) : t \in TableDates}

\* C6: the table has the keys 2000..2090 and no other, each with 12 positive
\* lengths; toAD maps the table dates one-to-one onto the days from
\* 1943-04-14 to 2034-04-13, BSDate(2090, 12, 30) to 2034-04-13; the table
\* holds 33238 days.
C6_ImageOfTable ==
    /\ DOMAIN monthDaysInBSYear = 2000 .. 2090
    /\ \A y \in DOMAIN monthDaysInBSYear :
           /\ Len(monthDaysInBSYear[y]) = 12
           /\ \A i \in 1 .. 12 : monthDaysInBSYear[y][i] > 0
    /\ Cardinality(TableDates) = 33238
    /\ Cardinality(ADDays) = 33238
    /\ ADImage = ADDays
    /\ (trail = <<"BSDate", "toAD">> /\ error = "none")
           => /\ adDate[1] % DAY = 0
              /\ adDate[1] >= DateUTC(1943, 4, 14)
              /\ adDate[1] <= DateUTC(2034, 4, 13)
              /\ input = <<2090, 12, 30>> => adDate = Some(DateUTC(2034, 4, 13))

\* C6 witness: toAD() of the last date of the table has returned 2034-04-13
C6_Witness ==
    /\ trail = <<"BSDate", "toAD">>
    /\ input = <<2090, 12, 30>>
    /\ adDate = Some(DateUTC(2034, 4, 13))

\* C7: every BSDate that toBS() returns for an instant from 1943-04-14 to
\* 2034-04-13 is a table date with a day in 1..32.
C7_ToBSReturnsTableDate ==
    (trail = <<"Date", "toBS">> /\ error = "none")
        => /\ bsDate # None
           /\ bsDate[1].day \in 1 .. 32
           /\ IsTableDate(bsDate[1].year, bsDate[1].month, bsDate[1].day)

\* (y1, m1, d1) is lexicographically smaller than (y2, m2, d2)
LexLess(a, b) ==
    \/ a[1] < b[1]
    \/ a[1] = b[1] /\ a[2] < b[2]
    \/ a[1] = b[1] /\ a[2] = b[2] /\ a[3] < b[3]

\* table dates a and b, toAD() of a having returned adDate, are in the same
\* order as their Julian days and as their AD dates
SameOrder(a, b) ==
    LET ja == TableJulianDays[a[1]][a[2]][a[3]]
        jb == TableJulianDays[b[1]][b[2]][b[3]]
    IN  /\ julian(adDate[1]) = ja
        /\ LexLess(a, b) => (ja < jb /\ adDate[1] < julianToDate(jb))
        /\ LexLess(b, a) => (jb < ja /\ julianToDate(jb) < adDate[1])

\* C8: if table date a is lexicographically smaller than table date b, the
\* Julian day of a is smaller than that of b, and a.toAD() is earlier than
\* b.toAD().  Each table date a is compared with every day of its month,
\* with the first and the last day of every month of its year and of the
\* years next to it, and with the first and the last day of every year of
\* the table; the date that follows a and the date that precedes it are
\* among them.
C8_Monotonic ==
    (trail = <<"BSDate", "toAD">> /\ InputIsTableDate)
        => /\ \A d \in 1 .. monthDaysInBSYear[input[1]][input[2]] :
                  SameOrder(input, <<input[1], input[2], d>>)
           /\ \A y \in ((input[1] - 1) .. (input[1] + 1)) \cap (2000 .. 2090) :
                  \A m \in 1 .. 12 :
                      /\ SameOrder(input, <<y, m, 1>>)
                      /\ SameOrder(input, <<y, m, monthDaysInBSYear[y][m]>>)
           /\ \A y \in 2000 .. 2090 :
                  /\ SameOrder(input, <<y, 1, 1>>)
                  /\ SameOrder(input, <<y, 12, monthDaysInBSYear[y][12]>>)

\* C8 witness: toAD() of the last day of a year, which the first day of the
\* next year follows
C8_Witness ==
    /\ trail = <<"BSDate", "toAD">>
    /\ input = <<2081, 12, 30>>
    /\ adDate # None
    /\ LexLess(input, <<2082, 1, 1>>)

\* C9: new BSDate(y, m, d) fails exactly when one of y, m, d is missing or
\* zero; every other integer triple is stored unchanged, whether in range or
\* not, and a range failure appears only at toAD().
C9_ConstructionExact ==
    /\ trail = <<"BSDate">>
           => /\ error # "none"
                    <=> (Len(input) < 3 \/ \E i \in 1 .. 3 : input[i] = 0)
              /\ error # "none" => bsDate = None
              /\ error = "none"
                    => /\ bsDate # None
                       /\ <<bsDate[1].year, bsDate[1].month, bsDate[1].day>> = input
    /\ (/\ Len(trail) >= 2
        /\ trail[1] = "BSDate"
        /\ input \in {<<1999, 5, 25>>, <<2000, 13, 25>>})
           => /\ bsDate = Some(BS(input[1], input[2], input[3]))
              /\ trail[2] = "toAD" /\ Len(trail) = 2 => error = "BSDateOutOfRangeError"

\* C9 witness: BSDate(2000, 13, 25) was constructed and its toAD() has failed
C9_Witness ==
    /\ trail = <<"BSDate", "toAD">>
    /\ input = <<2000, 13, 25>>
    /\ bsDate = Some(BS(2000, 13, 25))
    /\ error = "BSDateOutOfRangeError"

\* C10: the error raised when constructor parameters of BSDate are missing
\* is a BSDateOutOfRangeError.
C10_ConstructionErrorKind ==
    (trail = <<"BSDate">> /\ Len(input) < 3) => error = "BSDateOutOfRangeError"

\* C11: dayName with both romanized and localized set fails with the error
\* of the option check for every constructed BSDate, in the table or not,
\* and never with BSDateOutOfRangeError; with at most one of them set that
\* error is never raised, and the call fails, with BSDateOutOfRangeError,
\* exactly when the date is not a table date.
C11_DayNameOptions ==
    trail = <<"BSDate", "dayName">>
        => /\ (call[1].romanized /\ call[1].localized)
                  => (error = "Error" /\ name = None)
           /\ ~(call[1].romanized /\ call[1].localized)
                  => /\ error \in {"none", "BSDateOutOfRangeError"}
                     /\ error = "BSDateOutOfRangeError"
                            <=> ~IsTableDate(input[1], input[2], input[3])
                     /\ error = "none" <=> name # None

\* C11 witness: dayName with both options has failed on BSDate(1999, 5, 25)
C11_Witness ==
    /\ trail = <<"BSDate", "dayName">>
    /\ input = <<1999, 5, 25>>
    /\ call[1].romanized /\ call[1].localized
    /\ error = "Error"

\* the day of the week N days after 1943-04-14, a Wednesday
WeekdayOfOffset(n) == (3 + n) % 7

\* C12: for every table date, N days after the epoch, dayName returns the
\* entry at index (3 + N) mod 7 of the list of the form asked for;
\* BSDate(2082, 5, 18) gives index 3, Budhbar / Wednesday.
C12_DayNameIsWeekdayOfADDate ==
    (/\ trail = <<"BSDate", "dayName">>
     /\ InputIsTableDate
     /\ ~(call[1].romanized /\ call[1].localized))
        => LET w == WeekdayOfOffset(DaysBefore(input[1], input[2], input[3]))
           IN  /\ name = Some(IF call[1].localized THEN weekdaysLocal[w + 1]
                              ELSE IF call[1].romanized THEN weekdaysValues[w + 1]
                              ELSE weekdaysKeys[w + 1])
               /\ input = <<2082, 5, 18>>
                      => name \in {Some("Wednesday"), Some("Budhbar"),
                                   Some("BA-U-DHA-BA-AA-RA")}

\* C12 holds in a process whose local time is UTC or ahead of UTC
C12_HoldsAtOrEastOfUTC ==
    (trail = <<"BSDate", "dayName">> /\ call[1].tz >= 0)
        => C12_DayNameIsWeekdayOfADDate

\* the days from 1943-04-14 to the first day of month m of year y
MonthStart == [y \in 2000 .. 2090 |-> [m \in 1 .. 12 |-> DaysBefore(y, m, 1)]]

\* the whole days from 1943-04-14 to instant t
OffsetDays(t) == (t - DateUTC(1943, 4, 14)) \div DAY

\* C13: when the days remaining at month m of year y equal the length L of
\* that month (for month 12: when the days remaining at year y equal the
\* length of the year), the date returned is day L of month m of year y, and
\* never a day beyond the length of its month.
C13_BoundaryIsLastDay ==
    (trail = <<"Date", "fromAD">> /\ input[1] % DAY = 0)
        => \A y \in 2000 .. 2090 : \A m \in 1 .. 12 :
               OffsetDays(input[1]) = MonthStart[y][m] + monthDaysInBSYear[y][m]
                   => /\ bsDate = Some(BS(y, m, monthDaysInBSYear[y][m]))
                      /\ bsDate[1].day <= monthDaysInBSYear[y][m]

\* C14: for every instant from 2034-04-14 on, BSDate.fromAD fails with
\* BSDateOutOfRangeError and returns no BSDate.
C14_PastTableIsBSRangeError ==
    (trail = <<"Date", "fromAD">> /\ input[1] >= DateUTC(2034, 4, 14))
        => (error = "BSDateOutOfRangeError" /\ bsDate = None)

\* C15: for every instant before 1943-04-14, BSDate.fromAD ends with an
\* error and returns no BSDate.
C15_BeforeEpochFails ==
    (trail = <<"Date", "fromAD">> /\ input[1] < DateUTC(1943, 4, 14))
        => (error # "none" /\ bsDate = None)

\* C16: #julianDaysToBS ends, by returning or by failing, after at most 91
\* iterations of its year loop and at most 11 of its month loop, the month
\* never above 12, whatever the instant; #bsToJulianDays of a table date
\* ends after at most 90 iterations of its year loop.
C16_BoundedLoops ==
    /\ trail = <<"Date", "fromAD">>
           => /\ loops # None
              /\ loops[1][1] <= 91
              /\ loops[1][2] <= 11
              /\ error \in {"none", "Error", "TypeError"}
              /\ bsDate # None => bsDate[1].month <= 12
    /\ (trail = <<"BSDate", "toAD">> /\ InputIsTableDate)
           => /\ loops # None
              /\ loops[1][1] <= 90
              /\ loops[1][1] = input[1] - 2000

\* C16 witness: BSDate.fromAD of 2035-06-25 has failed after 91 iterations
\* of the year loop
C16_Witness ==
    /\ trail = <<"Date", "fromAD">>
    /\ input = <<DateUTC(2035, 6, 25)>>
    /\ loops = Some(<<91, 0>>)
    /\ error = "TypeError"

\* C17: for every instant t from 1943-04-14 to the end of 2034-04-13,
\* BSDate.fromAD(t) returns what it returns for 00:00 UTC of the day of t;
\* noon of 1943-04-14 gives BSDate(2000, 1, 1).
C17_TimeOfDayIgnored ==
    (/\ trail = <<"Date", "fromAD">>
     /\ input[1] >= DateUTC(1943, 4, 14)
     /\ input[1] < DateUTC(2034, 4, 14))
        => LET r == fromAD(input[1] - (input[1] % DAY))
           IN  /\ error = r.thrown
               /\ r.thrown = "none" => bsDate = Some(BS(r.year, r.month, r.day))
               /\ input[1] = DateUTC(1943, 4, 14) + DAY \div 2
                      => bsDate = Some(BS(2000, 1, 1))

\* days on either side of a day with which its toBS() result is compared
OrderWindow == 2

\* the BSDate that toBS() returns for an instant of the range
ToBSTriple(t) == LET r == fromAD(t) IN <<r.year, r.month, r.day>>

\* C18: for AD days D1 < D2 at 00:00 UTC from 1943-04-14 to 2034-04-13, the
\* triple toBS() returns for D1 is lexicographically smaller than the one it
\* returns for D2.  Each day is compared with the days up to OrderWindow
\* before and after it; the day that follows it is among them.
C18_ToBSOrderPreserving ==
    (/\ trail = <<"Date", "toBS">>
     /\ input[1] % DAY = 0
     /\ input[1] >= DateUTC(1943, 4, 14)
     /\ input[1] <= DateUTC(2034, 4, 13))
        => /\ error = "none"
           /\ bsDate # None
           /\ \A k \in 1 .. OrderWindow :
                  LET mine == <<bsDate[1].year, bsDate[1].month, bsDate[1].day>>
                      later == input[1] + k * DAY
                      earlier == input[1] - k * DAY
                  IN  /\ later <= DateUTC(2034, 4, 13)
                          => LexLess(mine, ToBSTriple(later))
                      /\ earlier >= DateUTC(1943, 4, 14)
                          => LexLess(ToBSTriple(earlier), mine)

\* C18 witness: toBS() of 1943-05-14, which returns the day after the last
\* day of Baisakh 2000
C18_Witness ==
    /\ trail = <<"Date", "toBS">>
    /\ input = <<DateUTC(1943, 5, 14)>>
    /\ bsDate = Some(BS(2000, 1, 31))

====
